---- MODULE Spec2Model ----
(***************************************************************************)
(* A model of feeder_arxiv.py: the PaperTracker store, the post formatter, *)
(* the keyword filter of fetch_latest_papers and the publish pipeline of   *)
(* the __main__ block.                                                     *)
(*                                                                         *)
(* Text is a sequence of code points, each a one-element token; Python's   *)
(* len() of a str is the length of that sequence, and the UTF-8 encoding   *)
(* is computed by UTF8 below.  A JSON value (the content of the store      *)
(* file, or what json.load made of it) is a record [kind, val].            *)
(***************************************************************************)
EXTENDS Integers, Sequences, FiniteSets, TLC

\* ------------------------------------------------------------------ bounds

\* Longest feed (number of entries) one fetch returns.
MaxFeed == 2

\* Number of times the process is started (cron runs of the script).
MaxRuns == 2

\* Most papers a batch holds when two processes run side by side.
MaxTwoFeed == 1

\* ------------------------------------------------------- the store's values

\* arXiv identifiers (the spec's own examples).
Ids == {"2401.00001", "2401.00002"}

Contains(s, x) == \E i \in 1..Len(s) : s[i] = x

NoDuplicates(s) == \A i, j \in 1..Len(s) : s[i] = s[j] => i = j

\* Sequences of distinct identifiers.
IdSeqs == {s \in UNION {[1..n -> Ids] : n \in 0..Cardinality(Ids)} : NoDuplicates(s)}

JsonList(s) == [kind |-> "list", val |-> s]

\* The tracker before its constructor ran.
NoTracker == [kind |-> "none", val |-> <<>>]

\* What the store file can hold when the process starts: no file, text that
\* is no JSON, bytes that are no text, a JSON array of identifiers, a JSON
\* object (val: its keys), a JSON number.
FileContents ==
    {[kind |-> k, val |-> <<>>] : k \in {"absent", "badjson", "badbytes", "num"}}
    \cup {[kind |-> k, val |-> s] : k \in {"list", "dict"}, s \in IdSeqs}

\* How one call of _save_posted_papers can end: written, open() raised
\* (the file is as it was), json.dump raised after open() truncated the file.
WriteOutcomes == {"ok", "open_fail", "dump_fail"}

\* PaperTracker._load_posted_papers: [] for no file and for a JSONDecodeError;
\* any other exception of open()/json.load propagates; any parsed value is
\* returned as it is.
load_posted_papers(f) ==
    CASE f.kind = "absent"   -> [raised |-> "none", value |-> JsonList(<<>>)]
      [] f.kind = "badjson"  -> [raised |-> "none", value |-> JsonList(<<>>)]
      [] f.kind = "badbytes" -> [raised |-> "UnicodeDecodeError", value |-> NoTracker]
      [] OTHER               -> [raised |-> "none", value |-> [kind |-> f.kind, val |-> f.val]]

\* PaperTracker._save_posted_papers: open(filename, "w"), json.dump.
save_posted_papers(pp, f, wr) ==
    CASE wr = "ok"        -> [file |-> [kind |-> "list", val |-> pp.val], raised |-> "none"]
      [] wr = "open_fail" -> [file |-> f, raised |-> "OSError"]
      [] OTHER            -> [file |-> [kind |-> "badjson", val |-> <<>>], raised |-> "OSError"]

\* PaperTracker.is_posted: `arxiv_id in self.posted_papers`; a number has no
\* membership test.
is_posted(pp, id) ==
    IF pp.kind \in {"list", "dict"}
    THEN (IF Contains(pp.val, id) THEN "True" ELSE "False")
    ELSE "TypeError"

\* A mark_as_posted that appends without the membership test.
mark_as_posted_nocheck(pp, f, id, wr) ==
    IF pp.kind # "list"
    THEN [posted_papers |-> pp, file |-> f, raised |-> "TypeError", wrote |-> FALSE]
    ELSE LET pp2 == JsonList(Append(pp.val, id))
             s   == save_posted_papers(pp2, f, wr)
         IN  [posted_papers |-> pp2, file |-> s.file, raised |-> s.raised, wrote |-> TRUE]

\* PaperTracker.mark_as_posted: the membership test, the append, the save.
mark_as_posted(pp, f, id, wr) ==
    IF pp.kind \notin {"list", "dict"}
    THEN [posted_papers |-> pp, file |-> f, raised |-> "TypeError", wrote |-> FALSE]
    ELSE IF Contains(pp.val, id)
    THEN [posted_papers |-> pp, file |-> f, raised |-> "none", wrote |-> FALSE]
    ELSE IF pp.kind = "dict"
    THEN [posted_papers |-> pp, file |-> f, raised |-> "AttributeError", wrote |-> FALSE]
    ELSE LET pp2 == JsonList(Append(pp.val, id))
             s   == save_posted_papers(pp2, f, wr)
         IN  [posted_papers |-> pp2, file |-> s.file, raised |-> s.raised, wrote |-> TRUE]

\* -------------------------------------------------------------------- text

UpperCase == <<"A", "B", "C", "D", "E", "F", "G", "H", "I", "J", "K", "L", "M",
               "N", "O", "P", "Q", "R", "S", "T", "U", "V", "W", "X", "Y", "Z">>

LowerCase == <<"a", "b", "c", "d", "e", "f", "g", "h", "i", "j", "k", "l", "m",
               "n", "o", "p", "q", "r", "s", "t", "u", "v", "w", "x", "y", "z">>

LowerChar(c) ==
    IF \E i \in 1..Len(UpperCase) : UpperCase[i] = c
    THEN LowerCase[CHOOSE i \in 1..Len(UpperCase) : UpperCase[i] = c]
    ELSE c

\* str.lower()
lower(s) == [i \in 1..Len(s) |-> LowerChar(s[i])]

Min(S) == CHOOSE x \in S : \A y \in S : x <= y

\* str.find(pat): the 0-based index of the first occurrence, -1 for none.
find(s, pat) ==
    LET hits == {i \in 1..(Len(s) - Len(pat) + 1) : SubSeq(s, i, i + Len(pat) - 1) = pat}
    IN  IF hits = {} THEN -1 ELSE Min(hits) - 1

\* re.search(pat, s, re.IGNORECASE) for a pattern of plain letters: whether
\* pat occurs in s, letter case ignored.
re_search(pat, s) == find(lower(s), lower(pat)) # -1

\* -------------------------------------------------- fetch_latest_papers

kw_coding      == <<"c", "o", "d", "i", "n", "g">>
kw_programming == <<"p", "r", "o", "g", "r", "a", "m", "m", "i", "n", "g">>
kw_bug         == <<"b", "u", "g">>
kw_testing     == <<"t", "e", "s", "t", "i", "n", "g">>
kw_verilog     == <<"v", "e", "r", "i", "l", "o", "g">>
kw_LLM         == <<"L", "L", "M">>
kw_Agent       == <<"A", "g", "e", "n", "t">>

\* Summaries of feed entries.
S_BugAgent     == <<"B", "u", "g", " ", "a", "g", "e", "n", "t">>
S_Testing      == <<"t", "e", "s", "t", "i", "n", "g">>
S_Hello        == <<"h", "e", "l", "l", "o">>
S_LlmOnly      == <<"a", "n", " ", "L", "L", "M">>
S_CodingLlm    == <<"C", "O", "D", "I", "N", "G", " ", "l", "l", "m">>
S_Debugging    == <<"d", "e", "b", "u", "g", "g", "i", "n", "g", " ", "A", "G", "E", "N", "T", "S">>
S_VerilogAgent == <<"V", "e", "r", "i", "l", "o", "g", "A", "g", "e", "n", "t">>
S_ProgLlm      == <<"l", "l", "m", " ", "P", "r", "o", "g", "r", "a", "m", "m", "i", "n", "g">>

Summaries == {S_BugAgent, S_Testing, S_Hello, S_LlmOnly, S_CodingLlm, S_Debugging,
              S_VerilogAgent, S_ProgLlm}

\* entry.published: a date parsedate_to_datetime reads, one only the
\* strptime pattern reads, one neither reads.
PublishedForms == {"rfc2822", "iso8601", "bad"}

Entries(summaries) ==
    [id : Ids, summary : summaries, published : PublishedForms]

Feeds(summaries) == UNION {[1..n -> Entries(summaries)] : n \in 0..MaxFeed}

\* Lines 95-100: the two date parsers of one entry.
parse_published(p) ==
    IF p = "rfc2822" THEN "ok"
    ELSE IF p = "iso8601" THEN "ok"
    ELSE "ValueError"

\* A filter that forgets the fifth keyword of the first group.
is_relevant_no_verilog(summary) ==
    LET opt1 == re_search(kw_coding, summary)
        opt2 == re_search(kw_programming, summary)
        opt3 == re_search(kw_bug, summary)
        opt4 == re_search(kw_testing, summary)
    IN  IF ~opt1 /\ ~opt2 /\ ~opt3 /\ ~opt4 THEN FALSE
        ELSE LET o1 == re_search(kw_LLM, summary)
                 o2 == re_search(kw_Agent, summary)
             IN  IF ~o1 /\ ~o2 THEN FALSE ELSE TRUE

\* Lines 102-115: the two keyword tests of one entry.
is_relevant(summary) ==
    LET opt1 == re_search(kw_coding, summary)
        opt2 == re_search(kw_programming, summary)
        opt3 == re_search(kw_bug, summary)
        opt4 == re_search(kw_testing, summary)
        opt5 == re_search(kw_verilog, summary)
    IN  IF ~opt1 /\ ~opt2 /\ ~opt3 /\ ~opt4 /\ ~opt5 THEN FALSE
        ELSE LET o1 == re_search(kw_LLM, summary)
                 o2 == re_search(kw_Agent, summary)
             IN  IF ~o1 /\ ~o2 THEN FALSE ELSE TRUE

RECURSIVE fetch_loop(_, _, _)
\* The for loop of fetch_latest_papers from entry i on, acc the papers so far.
fetch_loop(entries, i, acc) ==
    IF i > Len(entries) THEN [raised |-> "none", papers |-> acc]
    ELSE IF parse_published(entries[i].published) # "ok"
    THEN [raised |-> "ValueError", papers |-> <<>>]
    ELSE IF ~is_relevant(entries[i].summary)
    THEN fetch_loop(entries, i + 1, acc)
    ELSE fetch_loop(entries, i + 1, Append(acc, entries[i]))

RECURSIVE fetch_loop_skip_bad(_, _, _)
\* A loop that leaves out an entry whose timestamp it cannot read.
fetch_loop_skip_bad(entries, i, acc) ==
    IF i > Len(entries) THEN [raised |-> "none", papers |-> acc]
    ELSE IF parse_published(entries[i].published) # "ok"
    THEN fetch_loop_skip_bad(entries, i + 1, acc)
    ELSE IF ~is_relevant(entries[i].summary)
    THEN fetch_loop_skip_bad(entries, i + 1, acc)
    ELSE fetch_loop_skip_bad(entries, i + 1, Append(acc, entries[i]))

fetch_latest_papers_skip_bad(entries) == fetch_loop_skip_bad(entries, 1, <<>>)

\* fetch_latest_papers(base_url), entries what feedparser.parse returned.
fetch_latest_papers(entries) == fetch_loop(entries, 1, <<>>)

\* paper["arxiv_id"] of each paper.
ArxivIds(ps) == [i \in 1..Len(ps) |-> ps[i].id]

\* ------------------------------------------------- create_post_with_link

\* The width in bytes of a code point's UTF-8 encoding.
TwoByteChars   == {"U+00E9", "U+00F0", "U+0178"}
ThreeByteChars == {"U+20AC", "U+201C", "U+201E"}
FourByteChars  == {"U+1F4C4"}

ByteLen(c) ==
    IF c \in TwoByteChars THEN 2
    ELSE IF c \in ThreeByteChars THEN 3
    ELSE IF c \in FourByteChars THEN 4
    ELSE 1

RECURSIVE UTF8(_)
\* str.encode("utf-8"): byte k of code point c is <<c, k>>; the text is
\* encoded by halves, which keeps the evaluation shallow.
UTF8(s) ==
    IF s = <<>> THEN <<>>
    ELSE IF Len(s) = 1 THEN [k \in 1..ByteLen(s[1]) |-> <<s[1], k>>]
    ELSE UTF8(SubSeq(s, 1, Len(s) \div 2)) \o UTF8(SubSeq(s, Len(s) \div 2 + 1, Len(s)))

\* bytes[b:e]
ByteSlice(bytes, b, e) ==
    LET hi == IF e > Len(bytes) THEN Len(bytes) ELSE e
    IN  IF b >= hi THEN <<>> ELSE SubSeq(bytes, b + 1, hi)

Whitespace == {" ", "\n", "\t"}

\* str.strip()
strip(s) ==
    LET inked == {i \in 1..Len(s) : s[i] \notin Whitespace}
    IN  IF inked = {} THEN <<>>
        ELSE SubSeq(s, Min(inked), CHOOSE i \in inked : \A j \in inked : j <= i)

AbstractMarker == <<"a", "b", "s", "t", "r", "a", "c", "t", ":">>

\* clean_summary(summary)
clean_summary(summary) ==
    LET abstract_pos == find(lower(summary), AbstractMarker)
    IN  IF abstract_pos # -1
        THEN strip(SubSeq(summary, abstract_pos + 1, Len(summary)))
        ELSE summary

\* Line 60: the summary is cut to this many code points.
SummaryLimit == 250

\* Line 84: the limit len(post_text) is held to.
PostLimit == 300

\* Line 85: what is kept of a text over the limit, before the "...".
KeptLength == 297

\* Line 78: what is added to link_start and to link_end.
StartShift == 3
EndShift == 5

\* Line 64: the text before the title, as the source file holds it: "arxiv ",
\* the code points U+00F0 U+0178 U+201C U+201E, a space.
HeaderPrefix == <<"a", "r", "x", "i", "v", " ", "U+00F0", "U+0178", "U+201C", "U+201E", " ">>

\* Line 64: title_text
title_text(paper) == HeaderPrefix \o strip(paper.title) \o <<"\n">>

\* Lines 58-61: short_summary
short_summary(paper) ==
    LET clean_abstract == clean_summary(paper.summary)
    IN  IF Len(clean_abstract) > SummaryLimit
        THEN SubSeq(clean_abstract, 1, SummaryLimit)
        ELSE clean_abstract

\* Line 71: post_text as assembled, before the limit is applied.
assembled_text(paper) ==
    title_text(paper) \o <<"\n", "\n">> \o paper.link \o <<"\n">> \o short_summary(paper)

\* A formatter that returns the assembled text as it is.
create_post_with_link_nolimit(paper) ==
    LET link_start == Len(title_text(paper))
        link_end   == link_start + Len(paper.link)
    IN  [text   |-> assembled_text(paper),
         facets |-> << [uri |-> paper.link, byteStart |-> link_start + StartShift,
                        byteEnd |-> link_end + EndShift] >>]

\* A limit that also clamps the link's byteEnd to the limit.
create_post_with_link_clamped(paper) ==
    LET link_start == Len(title_text(paper))
        link_end   == link_start + Len(paper.link)
        post_text  == assembled_text(paper)
    IN  [text   |-> IF Len(post_text) > PostLimit
                    THEN SubSeq(post_text, 1, KeptLength) \o <<".", ".", ".">>
                    ELSE post_text,
         facets |-> << [uri |-> paper.link, byteStart |-> link_start + StartShift,
                        byteEnd |-> IF Len(post_text) > PostLimit
                                    THEN Min({link_end + EndShift, PostLimit})
                                    ELSE link_end + EndShift] >>]

\* create_post_with_link(client, paper): the text and its facets.
create_post_with_link(paper) ==
    LET link_start == Len(title_text(paper))
        link_end   == link_start + Len(paper.link)
        post_text  == assembled_text(paper)
    IN  [text   |-> IF Len(post_text) > PostLimit
                    THEN SubSeq(post_text, 1, KeptLength) \o <<".", ".", ".">>
                    ELSE post_text,
         facets |-> << [uri |-> paper.link, byteStart |-> link_start + StartShift,
                        byteEnd |-> link_end + EndShift] >>]

\* ------------------------------------------------------------------- state

VARIABLES
    file,           \* the content of posted_papers.json
    posted_papers,  \* tracker.posted_papers of the running process
    call,           \* the tracker method called last (store specification)
    pc,             \* the position of the __main__ block
    env,            \* BLUESKY_USERNAME and BLUESKY_PASSWORD of this run
    papers,         \* the batch being posted: the arxiv_id of each paper
    idx,            \* the position of the for loop in papers
    batchNo,        \* which of the two queries of __main__ is being handled
    outcomes,       \* what became of each paper of the batch so far
    published,      \* per identifier, the send_post calls that succeeded
    ran,            \* what this run has done so far
    runs,           \* the number of the current run
    initFile,       \* the file before the first run
    runFile,        \* the file when the current run started
    paper,          \* the paper handed to create_post_with_link
    post,           \* what create_post_with_link returned for it
    feed,           \* the entries feedparser.parse returned
    fetched,        \* what fetch_latest_papers made of them
    log,            \* the steps of post_papers_to_bluesky in the current batch
    served,         \* what the feed of the current batch held
    other,          \* the local state of a second process, while it is not running
    which           \* the process whose local state pc, posted_papers, ... hold

vars == <<file, posted_papers, call, pc, env, papers, idx, batchNo, outcomes,
          published, ran, runs, initFile, runFile, paper, post, feed, fetched,
          log, served, other, which>>

pipelineVars == <<pc, env, papers, idx, batchNo, outcomes, published, ran, runs,
                  initFile, runFile, log, served, other, which>>

twoVars == <<other, which>>

pureVars == <<paper, post, feed, fetched>>

storeVars == <<file, posted_papers, call>>

NoCall == [op |-> "none", id |-> "", result |-> "none", wrote |-> FALSE,
           pre_pp |-> NoTracker, pre_file |-> [kind |-> "absent", val |-> <<>>]]

\* What a run has done so far: the outcome of the login, whether a feed was
\* fetched, send_post called, the file opened for writing, the identifiers
\* send_post succeeded for, those it raised for, those it was called for
\* again after it had raised, those mark_as_posted saved, and whether a save
\* raised.
NothingRan == [login |-> "none", fetch |-> FALSE, send |-> FALSE, write |-> FALSE,
               sent |-> {}, failed |-> {}, retried |-> {}, recorded |-> {},
               wfail |-> FALSE]

\* The feed of a batch: whether an entry had a timestamp neither parser
\* reads, and how many entries the filter keeps stood before the first such
\* entry.
NothingServed == [bad |-> FALSE, before |-> 0]

\* A second process that was not started.
NotStarted == [pc |-> "none"]

EnvValues == {"unset", "empty", "set"}

PipelineIdle ==
    /\ pc = "idle"
    /\ env = [user |-> "unset", pass |-> "unset"]
    /\ papers = <<>>
    /\ idx = 1
    /\ batchNo = 0
    /\ outcomes = <<>>
    /\ published = [i \in Ids |-> 0]
    /\ ran = NothingRan
    /\ runs = 1
    /\ initFile = file
    /\ runFile = file
    /\ log = <<>>
    /\ served = NothingServed
    /\ other = NotStarted
    /\ which = 1

NoPaper == [title |-> <<>>, summary |-> <<>>, link |-> <<>>]

NoPost == [text |-> <<>>, facets |-> <<>>]

NoFetch == [raised |-> "not called", papers |-> <<>>]

PureIdle ==
    /\ paper = NoPaper
    /\ post = NoPost
    /\ feed = <<>>
    /\ fetched = NoFetch

StoreIdle ==
    /\ file = [kind |-> "absent", val |-> <<>>]
    /\ posted_papers = NoTracker
    /\ call = NoCall

\* ------------------------------------------ the store used through its API

StoreInit ==
    /\ file \in FileContents
    /\ posted_papers = NoTracker
    /\ call = NoCall
    /\ PipelineIdle
    /\ PureIdle

\* PaperTracker(): __init__ loads the file.
StoreConstruct ==
    /\ LET r == load_posted_papers(file)
       IN  /\ posted_papers' = r.value
           /\ call' = [op |-> "load", id |-> "", result |-> r.raised, wrote |-> FALSE,
                       pre_pp |-> posted_papers, pre_file |-> file]
    /\ UNCHANGED <<file, pipelineVars, pureVars>>

\* tracker.is_posted(id)
StoreIsPosted ==
    /\ posted_papers.kind # "none"
    /\ \E id \in Ids :
         call' = [op |-> "is_posted", id |-> id, result |-> is_posted(posted_papers, id),
                  wrote |-> FALSE, pre_pp |-> posted_papers, pre_file |-> file]
    /\ UNCHANGED <<file, posted_papers, pipelineVars, pureVars>>

\* tracker.mark_as_posted(id)
StoreMark ==
    /\ posted_papers.kind # "none"
    /\ \E id \in Ids, wr \in WriteOutcomes :
         LET r == mark_as_posted(posted_papers, file, id, wr)
         IN  /\ posted_papers' = r.posted_papers
             /\ file' = r.file
             /\ call' = [op |-> "mark_as_posted", id |-> id, result |-> r.raised,
                         wrote |-> r.wrote, pre_pp |-> posted_papers, pre_file |-> file]
    /\ UNCHANGED <<pipelineVars, pureVars>>

StoreNext == StoreConstruct \/ StoreIsPosted \/ StoreMark

SpecStore == StoreInit /\ [][StoreNext]_vars

\* ------------------------------------------------ the __main__ pipeline

\* The summaries the pipeline's feeds draw from: one the filter keeps, one
\* it drops.
PipelineSummaries == {S_BugAgent, S_Testing}

\* The entries whose timestamp neither parser reads.
BadStamps(entries) ==
    {i \in 1..Len(entries) : entries[i].published \notin {"rfc2822", "iso8601"}}

\* The entries the filter keeps that stand before the first entry with such
\* a timestamp.
RelevantBefore(entries) ==
    IF BadStamps(entries) = {} THEN 0
    ELSE Cardinality({i \in 1..Len(entries) :
                        /\ \A b \in BadStamps(entries) : i < b
                        /\ is_relevant(entries[i].summary)})

\* What fetch_latest_papers makes of the feeds the pipeline can be served:
\* the exception raised, or the arxiv_id of each paper kept.
PipelineFetches ==
    {[raised |-> fetch_latest_papers(entries).raised,
      papers |-> ArxivIds(fetch_latest_papers(entries).papers),
      bad    |-> BadStamps(entries) # {},
      before |-> RelevantBefore(entries)] :
        entries \in Feeds(PipelineSummaries)}

\* The two queries of __main__ (cs.AR, then cs.SE).
NumQueries == 2

\* A check that looks at the user name alone.
credentials_missing_user_only(e) == e.user # "set"

\* `not BLUESKY_USERNAME or not BLUESKY_PASSWORD`
credentials_missing(e) == e.user # "set" \/ e.pass # "set"

Init ==
    /\ file \in FileContents
    /\ posted_papers = NoTracker
    /\ call = NoCall
    /\ pc = "start"
    /\ env \in [user : EnvValues, pass : EnvValues]
    /\ papers = <<>>
    /\ idx = 1
    /\ batchNo = 0
    /\ outcomes = <<>>
    /\ published = [i \in Ids |-> 0]
    /\ ran = NothingRan
    /\ runs = 1
    /\ initFile = file
    /\ runFile = file
    /\ log = <<>>
    /\ served = NothingServed
    /\ other = NotStarted
    /\ which = 1
    /\ PureIdle

\* Lines 148-153: exit(1) when a credential is missing.
CheckCredentials ==
    /\ pc = "start"
    /\ pc' = IF credentials_missing(env) THEN "exit1" ELSE "tracker"
    /\ UNCHANGED <<file, posted_papers, call, env, papers, idx, batchNo, outcomes,
                   published, ran, runs, initFile, runFile, log, served, pureVars,
                   twoVars>>

\* Line 155: tracker = PaperTracker(); an exception of the load ends the
\* process with a traceback.
NewTracker ==
    /\ pc = "tracker"
    /\ LET r == load_posted_papers(file)
       IN  /\ posted_papers' = r.value
           /\ pc' = IF r.raised = "none" THEN "login" ELSE "crashed"
    /\ UNCHANGED <<file, call, env, papers, idx, batchNo, outcomes, published, ran,
                   runs, initFile, runFile, log, served, pureVars, twoVars>>

\* Lines 157-161: connect_to_bluesky; exit(1) when the login raises.
Login ==
    /\ pc = "login"
    /\ \E ok \in BOOLEAN :
         /\ pc' = IF ok THEN "fetch" ELSE "exit1"
         /\ batchNo' = IF ok THEN 1 ELSE batchNo
         /\ ran' = [ran EXCEPT !.login = IF ok THEN "ok" ELSE "failed"]
    /\ UNCHANGED <<file, posted_papers, call, env, papers, idx, outcomes, published,
                   runs, initFile, runFile, log, served, pureVars, twoVars>>

\* Lines 165 and 170: papers = fetch_latest_papers(base_url); an exception of
\* the fetch ends the process with a traceback.
Fetch ==
    /\ pc = "fetch"
    /\ \E r \in PipelineFetches :
         /\ papers' = r.papers
         /\ pc' = IF r.raised = "none" THEN "loop" ELSE "crashed"
         /\ served' = [bad |-> r.bad, before |-> r.before]
    /\ idx' = 1
    /\ outcomes' = <<>>
    /\ log' = <<>>
    /\ ran' = [ran EXCEPT !.fetch = TRUE]
    /\ UNCHANGED <<file, posted_papers, call, env, batchNo, published, runs,
                   initFile, runFile, pureVars, twoVars>>

\* Lines 131-134: the head of the for loop: the end of the batch, or the
\* is_posted test of the next paper.
LoopHead ==
    /\ pc = "loop"
    /\ IF idx > Len(papers)
       THEN /\ pc' = IF batchNo < NumQueries THEN "fetch" ELSE "done"
            /\ batchNo' = IF batchNo < NumQueries THEN batchNo + 1 ELSE batchNo
            /\ UNCHANGED <<idx, outcomes>>
       ELSE LET r == is_posted(posted_papers, papers[idx])
            IN  /\ pc' = CASE r = "True"  -> "loop"
                           [] r = "False" -> "send"
                           [] OTHER       -> "crashed"
                /\ idx' = IF r = "True" THEN idx + 1 ELSE idx
                /\ outcomes' = IF r = "True" THEN Append(outcomes, "skipped") ELSE outcomes
                /\ UNCHANGED batchNo
    /\ UNCHANGED <<file, posted_papers, call, env, papers, published, ran, runs,
                   initFile, runFile, log, served, pureVars, twoVars>>

\* A step of the loop body for paper number i of the batch.
Event(e, i) == [ev |-> e, i |-> i]

\* The identifiers send_post is called for after it raised for them in
\* this run.
Retried(r, id) == IF id \in r.failed THEN r.retried \cup {id} ELSE r.retried

\* Lines 137-138: create_post_with_link and client.send_post succeed.
SendPostOk ==
    /\ pc = "send"
    /\ published' = [published EXCEPT ![papers[idx]] = @ + 1]
    /\ ran' = [ran EXCEPT !.send = TRUE, !.sent = @ \cup {papers[idx]},
                          !.retried = Retried(ran, papers[idx])]
    /\ log' = Append(log, Event("send_ok", idx))
    /\ pc' = "mark"
    /\ UNCHANGED <<file, posted_papers, call, env, papers, idx, batchNo, outcomes,
                   runs, initFile, runFile, served, pureVars, twoVars>>

\* A failure handler that leaves the loop.
SendPostFails_break ==
    /\ pc = "send"
    /\ ran' = [ran EXCEPT !.send = TRUE, !.failed = @ \cup {papers[idx]},
                          !.retried = Retried(ran, papers[idx])]
    /\ log' = Append(log, Event("send_raised", idx))
    /\ outcomes' = Append(outcomes, "failed")
    /\ idx' = Len(papers) + 1
    /\ pc' = "loop"
    /\ UNCHANGED <<file, posted_papers, call, env, papers, batchNo, published, runs,
                   initFile, runFile, served, pureVars, twoVars>>

\* A failure handler that calls send_post for the same paper again.
SendPostFails_retry ==
    /\ pc = "send"
    /\ ran' = [ran EXCEPT !.send = TRUE, !.failed = @ \cup {papers[idx]},
                          !.retried = Retried(ran, papers[idx])]
    /\ log' = Append(log, Event("send_raised", idx))
    /\ IF \E k \in 1..Len(log) : log[k] = Event("send_raised", idx)
       THEN /\ outcomes' = Append(outcomes, "failed")
            /\ idx' = idx + 1
            /\ pc' = "loop"
       ELSE /\ UNCHANGED <<outcomes, idx, pc>>
    /\ UNCHANGED <<file, posted_papers, call, env, papers, batchNo, published, runs,
                   initFile, runFile, served, pureVars, twoVars>>

\* Lines 138 and 142-144: client.send_post raises; the handler prints and the
\* loop goes on.
SendPostFails ==
    /\ pc = "send"
    /\ ran' = [ran EXCEPT !.send = TRUE, !.failed = @ \cup {papers[idx]},
                          !.retried = Retried(ran, papers[idx])]
    /\ log' = Append(log, Event("send_raised", idx))
    /\ outcomes' = Append(outcomes, "failed")
    /\ idx' = idx + 1
    /\ pc' = "loop"
    /\ UNCHANGED <<file, posted_papers, call, env, papers, batchNo, published, runs,
                   initFile, runFile, served, pureVars, twoVars>>

\* Lines 139 and 142-144: tracker.mark_as_posted; an exception of it is
\* handled like one of send_post.
MarkPosted ==
    /\ pc = "mark"
    /\ \E wr \in WriteOutcomes :
         LET r == mark_as_posted(posted_papers, file, papers[idx], wr)
         IN  /\ posted_papers' = r.posted_papers
             /\ file' = r.file
             /\ ran' = [ran EXCEPT !.write = @ \/ r.wrote,
                                   !.recorded = IF r.wrote /\ r.raised = "none"
                                                THEN @ \cup {papers[idx]} ELSE @,
                                   !.wfail = @ \/ (r.wrote /\ r.raised # "none")]
             /\ log' = Append(log, Event(IF r.raised = "none" THEN "mark_ok"
                                         ELSE "mark_raised", idx))
             /\ pc' = IF r.raised = "none" THEN "sleep" ELSE "loop"
             /\ idx' = IF r.raised = "none" THEN idx ELSE idx + 1
             /\ outcomes' = IF r.raised = "none" THEN outcomes
                            ELSE Append(outcomes, "unrecorded")
    /\ UNCHANGED <<call, env, papers, batchNo, published, runs, initFile, runFile,
                   served, pureVars, twoVars>>

\* Lines 140-141: the print and time.sleep(2) after a recorded post.
Sleep ==
    /\ pc = "sleep"
    /\ log' = Append(log, Event("sleep", idx))
    /\ outcomes' = Append(outcomes, "posted")
    /\ idx' = idx + 1
    /\ pc' = "loop"
    /\ UNCHANGED <<file, posted_papers, call, env, papers, batchNo, published, ran,
                   runs, initFile, runFile, served, pureVars, twoVars>>

Terminated == pc \in {"done", "exit1", "crashed"}

\* The exit status of the process: 0 at the end of the script, 1 from
\* exit(1) and from an uncaught exception.
ExitStatus == IF pc = "done" THEN 0 ELSE 1

\* The script is started again (line 147): a new process, the file is kept.
Restart ==
    /\ Terminated
    /\ runs < MaxRuns
    /\ runs' = runs + 1
    /\ pc' = "start"
    /\ env' \in [user : EnvValues, pass : EnvValues]
    /\ posted_papers' = NoTracker
    /\ papers' = <<>>
    /\ idx' = 1
    /\ batchNo' = 0
    /\ outcomes' = <<>>
    /\ log' = <<>>
    /\ served' = NothingServed
    /\ ran' = NothingRan
    /\ runFile' = file
    /\ UNCHANGED <<file, call, published, initFile, pureVars, twoVars>>

Next ==
    \/ CheckCredentials
    \/ NewTracker
    \/ Login
    \/ Fetch
    \/ LoopHead
    \/ SendPostOk
    \/ SendPostFails
    \/ MarkPosted
    \/ Sleep
    \/ Restart

Spec == Init /\ [][Next]_vars

\* ------------------------------------- two processes over one store file

\* The variables of one process: what `other` holds for the process that is
\* not running.
Local == [pc |-> pc, env |-> env, posted_papers |-> posted_papers, papers |-> papers,
          idx |-> idx, batchNo |-> batchNo, outcomes |-> outcomes, ran |-> ran,
          runFile |-> runFile, log |-> log, served |-> served]

TwoInit ==
    /\ file \in {f \in FileContents : f.kind \in {"absent", "list"}}
    /\ posted_papers = NoTracker
    /\ call = NoCall
    /\ pc = "start"
    /\ env = [user |-> "set", pass |-> "set"]
    /\ papers = <<>>
    /\ idx = 1
    /\ batchNo = 0
    /\ outcomes = <<>>
    /\ published = [i \in Ids |-> 0]
    /\ ran = NothingRan
    /\ runs = 1
    /\ initFile = file
    /\ runFile = file
    /\ log = <<>>
    /\ served = NothingServed
    /\ other = [pc |-> "start", env |-> [user |-> "set", pass |-> "set"],
                posted_papers |-> NoTracker, papers |-> <<>>, idx |-> 1, batchNo |-> 0,
                outcomes |-> <<>>, ran |-> NothingRan, runFile |-> file, log |-> <<>>,
                served |-> NothingServed]
    /\ which = 1
    /\ PureIdle

\* The scheduler takes the processor from one process and gives it to the
\* other.  Only the steps that read or write the file (lines 22 and 28-29)
\* depend on what the other process did, so a switch is taken right before
\* such a step, or when the running process has ended.
ContextSwitch ==
    /\ other.pc \notin {"none", "done", "exit1", "crashed"}
    /\ pc \in {"tracker", "mark"} \/ Terminated
    /\ other' = Local
    /\ pc' = other.pc
    /\ env' = other.env
    /\ posted_papers' = other.posted_papers
    /\ papers' = other.papers
    /\ idx' = other.idx
    /\ batchNo' = other.batchNo
    /\ outcomes' = other.outcomes
    /\ ran' = other.ran
    /\ runFile' = other.runFile
    /\ log' = other.log
    /\ served' = other.served
    /\ which' = 3 - which
    /\ UNCHANGED <<file, call, published, runs, initFile, pureVars>>

\* A fetch whose feed leaves at most MaxTwoFeed papers.
FetchShort == Fetch /\ Len(papers') <= MaxTwoFeed

TwoNext ==
    \/ CheckCredentials
    \/ NewTracker
    \/ Login
    \/ FetchShort
    \/ LoopHead
    \/ SendPostOk
    \/ SendPostFails
    \/ MarkPosted
    \/ Sleep
    \/ ContextSwitch

SpecTwo == TwoInit /\ [][TwoNext]_vars

\* ------------------------------------------ create_post_with_link, applied

\* Whitespace around a title, at most this many code points on each side.
MaxPad == 1

Rep(c, n) == [i \in 1..n |-> c]

\* Title bodies: empty, one code point, a line, one that fills the post.
TitleLengths == {0, 1, 40, 290}

Titles ==
    {Rep(" ", p) \o Rep(c, n) \o Rep("\n", p) :
        c \in {"T", "U+00E9", "U+1F4C4"}, n \in TitleLengths, p \in 0..MaxPad}

SummaryLead == <<"x", " ", "A", "b", "s", "t", "r", "a", "c", "t", ":", " ">>

SummaryTexts ==
    {lead \o Rep(c, n) :
        lead \in {<<>>, SummaryLead}, c \in {"s", "U+20AC"}, n \in {0, 10, 250, 260}}

LinkStem == <<"h", "t", "t", "p", ":", "/", "/", "a", ".", "b", "/">>

Links == {LinkStem \o Rep("9", n) : n \in {1, 30}}

FormatInit ==
    /\ paper \in [title : Titles, summary : SummaryTexts, link : Links]
    /\ post = NoPost
    /\ feed = <<>>
    /\ fetched = NoFetch
    /\ StoreIdle
    /\ PipelineIdle

\* post_text, facets = create_post_with_link(client, paper)
Format ==
    /\ post = NoPost
    /\ post' = create_post_with_link(paper)
    /\ UNCHANGED <<paper, feed, fetched, storeVars, pipelineVars>>

FormatNext == Format

SpecFormat == FormatInit /\ [][FormatNext]_vars

\* --------------------------------------------- fetch_latest_papers, applied

FetchInit ==
    /\ feed \in Feeds(Summaries)
    /\ fetched = NoFetch
    /\ paper = NoPaper
    /\ post = NoPost
    /\ StoreIdle
    /\ PipelineIdle

\* papers = fetch_latest_papers(base_url)
FetchFeed ==
    /\ fetched = NoFetch
    /\ fetched' = fetch_latest_papers(feed)
    /\ UNCHANGED <<feed, paper, post, storeVars, pipelineVars>>

FetchNext == FetchFeed

SpecFetch == FetchInit /\ [][FetchNext]_vars

\* ================================================================= claims

InMemory(id) == posted_papers.kind \in {"list", "dict"} /\ Contains(posted_papers.val, id)

InFile(id) == file.kind = "list" /\ Contains(file.val, id)

\* The identifiers a file holds as a JSON array.
FileIds(f) == IF f.kind = "list" THEN {f.val[i] : i \in 1..Len(f.val)} ELSE {}

StartedEmpty == initFile.kind = "absent" \/ initFile = [kind |-> "list", val |-> <<>>]

\* A call of post_papers_to_bluesky has returned.
BatchReturned == pc = "done" \/ (pc = "fetch" /\ batchNo > 1)

\* C1: starting from an empty store, after any sequence of runs of
\* post_papers_to_bluesky an identifier is in the store, in memory and in the
\* file, if and only if a send_post for it succeeded.
C1_StoredIffPublished ==
    (StartedEmpty /\ BatchReturned) =>
        \A id \in Ids : (InMemory(id) /\ InFile(id)) <=> published[id] > 0

\* C2: after mark_as_posted(id) returns, is_posted(id) is true, and it is
\* true on a new PaperTracker constructed from the same file.
C2_MarkedThenPostedAfterReload ==
    (call.op = "mark_as_posted" /\ call.result = "none") =>
        /\ is_posted(posted_papers, call.id) = "True"
        /\ load_posted_papers(file).raised = "none"
        /\ is_posted(load_posted_papers(file).value, call.id) = "True"

\* C3: send_post is never called for an identifier that is in the store when
\* its item is processed; no identifier is successfully published more than
\* once over the runs; and after a run the file holds the identifiers it held
\* before the run and every identifier published in the run.  Stated for the
\* runs that start from no file or from a JSON array of identifiers.
C3_NoDuplicatePublish ==
    initFile.kind \in {"absent", "list"} =>
        /\ pc = "send" => is_posted(posted_papers, papers[idx]) = "False"
        /\ \A id \in Ids : published[id] <= 1
        /\ pc = "done" => (FileIds(runFile) \cup ran.sent) \subseteq FileIds(file)

\* C4: when send_post raises, the identifier is not added to the store, in
\* memory or in the file, and the rest of the batch is still processed: every
\* paper before the loop's position has its outcome, a batch ends with an
\* outcome for each of its papers, a paper is skipped only when its
\* identifier is in the store, and the run never dies after a failure.
C4_FailureIsolated ==
    /\ pc \in {"loop", "send", "mark", "sleep"} => Len(outcomes) = idx - 1
    /\ BatchReturned => Len(outcomes) = Len(papers)
    /\ \A i \in 1..Len(outcomes) :
         /\ outcomes[i] = "skipped" => InMemory(papers[i])
         /\ outcomes[i] = "failed" => pc # "crashed"
    /\ \A id \in Ids :
         (InMemory(id) \/ InFile(id)) => (published[id] > 0 \/ id \in FileIds(initFile)
                                          \/ (initFile.kind = "dict" /\ Contains(initFile.val, id)))

\* C4's case: a failed paper, and after it in the same batch a paper that was
\* published and recorded.
C4_Witness ==
    \E i, j \in 1..Len(outcomes) :
        /\ i < j
        /\ outcomes[i] = "failed"
        /\ outcomes[j] = "posted"
        /\ ~InMemory(papers[i])
        /\ InFile(papers[j])

\* C5: loading the store never raises and yields an empty set when the file
\* is absent and when its content is corrupt or not a JSON array of strings;
\* every is_posted query then answers false.
C5_LoadDegradesToEmpty ==
    (call.op = "load" /\ call.pre_file.kind # "list") =>
        /\ call.result = "none"
        /\ posted_papers = JsonList(<<>>)
        /\ \A id \in Ids : is_posted(posted_papers, id) = "False"

\* C6: mark_as_posted of an identifier already present changes neither the
\* set in memory nor the file and writes nothing; of an absent one it inserts
\* it and, when it returns, the file holds the full current set; a second
\* call with the same identifier changes nothing.
C6_MarkIdempotent ==
    call.op = "mark_as_posted" =>
        /\ is_posted(call.pre_pp, call.id) = "True" =>
             /\ posted_papers = call.pre_pp
             /\ file = call.pre_file
             /\ ~call.wrote
             /\ call.result = "none"
        /\ (is_posted(call.pre_pp, call.id) = "False" /\ call.pre_pp.kind = "list") =>
             /\ posted_papers.val = Append(call.pre_pp.val, call.id)
             /\ call.wrote
        /\ (is_posted(call.pre_pp, call.id) = "False" /\ call.result = "none") =>
             /\ InMemory(call.id)
             /\ file = [kind |-> "list", val |-> posted_papers.val]
        /\ \A wr \in WriteOutcomes :
             LET again == mark_as_posted(posted_papers, file, call.id, wr)
             IN  /\ again.posted_papers = posted_papers
                 /\ again.file = file
                 /\ ~again.wrote

\* C6's case: an absent identifier was inserted into a store that held
\* another, and the file was rewritten with both.
C6_Witness ==
    /\ call.op = "mark_as_posted"
    /\ call.result = "none"
    /\ call.wrote
    /\ Len(call.pre_pp.val) = 1
    /\ file.kind = "list"
    /\ Len(file.val) = 2
    /\ call.pre_file.kind # "list"

\* C7, as claimed: the UTF-8 encoding of the returned text has at most 300
\* bytes.
C7_BytesWithinLimit ==
    post # NoPost => Len(UTF8(post.text)) <= PostLimit

\* C7, amended: the returned text has at most 300 code points (Python's len).
C7_CodePointsWithinLimit ==
    post # NoPost => Len(post.text) <= PostLimit

\* C7's case: an assembled text over the limit, with multi-byte code points
\* in the title, was cut to the limit.
C7_Witness ==
    /\ post # NoPost
    /\ Len(assembled_text(paper)) > PostLimit
    /\ Len(post.text) = PostLimit
    /\ \E i \in 1..Len(paper.title) : ByteLen(paper.title[i]) > 1

\* C8: for a text that is not hard-truncated, the bytes of the returned text
\* from byteStart to byteEnd of its one facet are the link URI.
C8_FacetSlicesLink ==
    (post # NoPost /\ Len(assembled_text(paper)) <= PostLimit) =>
        /\ Len(post.facets) = 1
        /\ ByteSlice(UTF8(post.text), post.facets[1].byteStart, post.facets[1].byteEnd)
             = UTF8(paper.link)

\* The two keyword groups of the claim.
GroupA == {kw_coding, kw_programming, kw_bug, kw_testing, kw_verilog}
GroupB == {kw_LLM, kw_Agent}

\* kw is a substring of text, letter case ignored.
OccursIgnoringCase(kw, text) ==
    \E i \in 0..(Len(text) - Len(kw)) :
        \A k \in 1..Len(kw) : LowerChar(text[i + k]) = LowerChar(kw[k])

ClaimedRelevant(e) ==
    /\ \E kw \in GroupA : OccursIgnoringCase(kw, e.summary)
    /\ \E kw \in GroupB : OccursIgnoringCase(kw, e.summary)

\* C9: fetch_latest_papers keeps an entry if and only if its summary holds,
\* case ignored, a keyword of each group, and keeps the entries in feed
\* order; "Bug ... agent" passes, "testing" alone and a summary with no
\* keyword are rejected.
C9_FilterKeepsRelevant ==
    (fetched # NoFetch /\ fetched.raised = "none") =>
        /\ fetched.papers = SelectSeq(feed, ClaimedRelevant)
        /\ \A i \in 1..Len(feed) :
             /\ feed[i].summary = S_BugAgent => Contains(fetched.papers, feed[i])
             /\ feed[i].summary \in {S_Testing, S_Hello} => ~Contains(fetched.papers, feed[i])

\* C9's case: a feed whose first entry is rejected and whose second is kept.
C9_Witness ==
    /\ fetched # NoFetch
    /\ fetched.raised = "none"
    /\ Len(feed) = 2
    /\ feed[1].summary = S_Testing
    /\ feed[2].summary = S_Debugging
    /\ fetched.papers = <<feed[2]>>

\* C10: with a credential unset, or a failed login, the process ends with a
\* non-zero exit status before any processing: no feed fetched, no send_post
\* called, the file not written.
C10_AbortsBeforeProcessing ==
    /\ ((env.user = "unset" \/ env.pass = "unset") /\ pc # "start") =>
         /\ pc = "exit1"
         /\ posted_papers = NoTracker
    /\ ran.login = "failed" => pc = "exit1"
    /\ pc = "exit1" =>
         /\ Terminated
         /\ ExitStatus # 0
         /\ ~ran.fetch
         /\ ~ran.send
         /\ ~ran.write
         /\ ran.sent = {}
         /\ file = runFile

\* C10's case: a later run, over a file an earlier run wrote, whose login
\* failed.
C10_Witness ==
    /\ pc = "exit1"
    /\ ran.login = "failed"
    /\ runs > 1
    /\ file.kind = "list"
    /\ Len(file.val) > 0
    /\ StartedEmpty

\* C16: when the assembled text is over the limit, the returned text is its
\* first 297 code points followed by three full stops, 300 in all, and the
\* link facet is the one computed from the text before the truncation.
C16_TruncationKeepsFacet ==
    (post # NoPost /\ Len(assembled_text(paper)) > PostLimit) =>
        /\ post.text = SubSeq(assembled_text(paper), 1, 297) \o <<".", ".", ".">>
        /\ Len(post.text) = 300
        /\ Len(post.facets) = 1
        /\ post.facets[1].uri = paper.link
        /\ post.facets[1].byteStart = Len(title_text(paper)) + 3
        /\ post.facets[1].byteEnd = Len(title_text(paper)) + Len(paper.link) + 5

\* C16's case: a truncated text whose facet ends past the last byte of the
\* returned text.
C16_Witness ==
    /\ post # NoPost
    /\ Len(assembled_text(paper)) > PostLimit
    /\ post.facets[1].byteEnd > Len(UTF8(post.text))
    /\ post.facets[1].byteEnd > Len(post.text)

\* The identifiers the tracker holds in memory.
MemoryIds ==
    IF posted_papers.kind \in {"list", "dict"}
    THEN {posted_papers.val[i] : i \in 1..Len(posted_papers.val)}
    ELSE {}

\* C17: between two papers of a batch (mark_as_posted has returned or raised,
\* or a failure was handled) the file holds exactly the identifiers the
\* tracker holds in memory.
C17_FileEqualsMemory ==
    (pc = "loop" /\ posted_papers.kind = "list") => FileIds(file) = MemoryIds

\* C18: no step of a run, and no new run, removes an identifier from the
\* file.
C18_FileOnlyGrows ==
    [][FileIds(file) \subseteq FileIds(file')]_vars

\* C13: when an entry of the feed, kept by the filter or not and wherever it
\* stands, has a timestamp neither parser reads, the fetch raises: the
\* process ends, no paper of that batch is sent or marked, and store, file
\* and posts stay as they were before the batch.
C13_BadTimestampAbortsBatch ==
    /\ [](served.bad =>
            /\ pc = "crashed"
            /\ ExitStatus # 0
            /\ papers = <<>>
            /\ outcomes = <<>>
            /\ log = <<>>)
    /\ [][(served.bad /\ runs' = runs) =>
            UNCHANGED <<file, posted_papers, published>>]_vars

\* C13's case: the second query's feed has an entry the filter keeps before
\* the entry with the unreadable timestamp, after a first batch that posted.
C13_Witness ==
    /\ served.bad
    /\ served.before > 0
    /\ pc = "crashed"
    /\ batchNo = 2
    /\ ran.recorded # {}

\* A call of send_post in the log of the batch.
IsSend(e) == e.ev \in {"send_ok", "send_raised"}

\* C12, as claimed: within one run send_post is not called again for an
\* identifier it raised for (stated for a batch that holds no identifier
\* twice).
C12_NoRetryWithinRun ==
    NoDuplicates(papers) => ran.retried = {}

\* C12, amended: every paper of a batch gets at most one call of send_post,
\* in the order of the batch, the call is made only for an identifier the
\* store does not hold, and after a call that raised the loop is past that
\* paper.
C12_OneAttemptPerItem ==
    /\ \A k \in 1..Len(log) : log[k].i \in 1..Len(papers) /\ log[k].i <= idx
    /\ \A j, k \in 1..Len(log) :
         (j < k /\ IsSend(log[j]) /\ IsSend(log[k])) => log[j].i < log[k].i
    /\ \A k \in 1..Len(log) : log[k].ev = "send_raised" => idx > log[k].i
    /\ pc = "send" => is_posted(posted_papers, papers[idx]) = "False"

\* C12's case: the second batch of a run calls send_post for an identifier
\* it raised for in the first batch.
C12_Witness ==
    /\ batchNo = 2
    /\ NoDuplicates(papers)
    /\ \E k \in 1..Len(log) :
         /\ IsSend(log[k])
         /\ papers[log[k].i] \in ran.retried
         /\ \A j \in 1..(k - 1) : papers[log[j].i] # papers[log[k].i]

\* C14: send_post is called in the order of the batch, and when it succeeded
\* for a paper the identifier is saved to the file before send_post is
\* called for a later paper (stated for a store that loaded as a list).
C14_RecordedBeforeNextPublish ==
    posted_papers.kind = "list" =>
        /\ \A j, k \in 1..Len(log) :
             (j < k /\ IsSend(log[j]) /\ IsSend(log[k])) => log[j].i < log[k].i
        /\ \A j, k \in 1..Len(log) :
             (j < k /\ log[j].ev = "send_ok" /\ IsSend(log[k])) =>
                 log[j + 1] = Event("mark_ok", log[j].i)

\* C15: after every send_post that succeeded the identifier is saved and the
\* delay is taken before the next call of send_post, and no delay follows a
\* send_post that raised (stated for a store that loaded as a list).
C15_DelayAfterEachPublish ==
    posted_papers.kind = "list" =>
        /\ \A j, k \in 1..Len(log) :
             (j < k /\ log[j].ev = "send_ok" /\ IsSend(log[k])) =>
                 /\ log[j + 1] = Event("mark_ok", log[j].i)
                 /\ log[j + 2] = Event("sleep", log[j].i)
        /\ \A j, k \in 1..Len(log) :
             (j < k /\ log[j].ev = "send_ok" /\ log[k].ev = "send_ok") =>
                 \E m \in (j + 1)..(k - 1) : log[m].ev = "sleep"
        /\ \A k \in 1..(Len(log) - 1) :
             log[k].ev = "send_raised" => log[k + 1].ev # "sleep"

\* C11, the single-process half: while only one process has run, every
\* identifier one of its mark_as_posted calls saved is in the file.
C11_SingleInstanceKeepsRecorded ==
    (which = 1 /\ other.pc = "start") => ran.recorded \subseteq FileIds(file)

\* C11, the two-process half: both processes have ended, no save has raised,
\* and an identifier one of them posted and saved is not in the file.
C11_LostUpdate ==
    /\ pc = "done"
    /\ other.pc = "done"
    /\ ~ran.wfail
    /\ ~other.ran.wfail
    /\ \E id \in ran.recorded \cup other.ran.recorded :
         /\ published[id] > 0
         /\ id \notin FileIds(file)

====
